---- MODULE Spec2Model ----
(***************************************************************************)
(* Model of the Select component of the cosmos component library:          *)
(* cosmosToReactSelect.options / cosmosToReactSelect.value / oneOrMore,    *)
(* Select.render and the Select scroll-listener lifecycle.                 *)
(*                                                                         *)
(* JavaScript values are modelled as records, one field name per kind, so  *)
(* that values of different kinds can be compared:                         *)
(*   undefined, null, strings, booleans, arrays, functions, thrown errors; *)
(* a plain object is the record of its own keys.                           *)
(***************************************************************************)
EXTENDS Integers, Sequences, FiniteSets, TLC

VARIABLES
  \* --- cosmosToReactSelect.options / value applied to caller inputs
  cosmosOptions,    \* the caller option tree handed to options()
  valueProp,        \* the raw value handed to value()
  getOptionValue,   \* the key extractor handed to value() (undefined: default)
  canonical,        \* result of options(cosmosOptions)
  resolved,         \* result of value(valueProp, canonical, getOptionValue)
  pc,               \* "props" -> "normalized" -> "resolved"
  \* --- the Select component
  props,            \* this.props
  state,            \* this.state ({menuIsOpen})
  phase,            \* "idle" | "constructed" | "mounted" | "unmounted" | "crashed"
  listeners,        \* listeners registered on document
  forceUpdates,     \* number of this.forceUpdate() calls so far
  history,          \* the events delivered so far, oldest first
  rendered,         \* what the last render() returned (or threw)
  selection,        \* the selection the widget last handed to onChange
  emitted,          \* the event last handed to props.onChange
  \* --- the Alert component
  alertProps,       \* this.props of the Alert
  alertState,       \* this.state ({visible})
  alertPhase,       \* "idle" | "constructed" | "mounted" | "unmounted"
  timer,            \* this.timer
  timeouts,         \* the timeouts pending in window
  now,              \* seconds elapsed
  dismissCalls,     \* number of runs of dismiss so far
  onDismissCalls,   \* number of calls of props.onDismiss so far
  lateDismissCalls  \* runs of dismiss on the unmounted Alert

vars == <<cosmosOptions, valueProp, getOptionValue, canonical, resolved, pc,
          props, state, phase, listeners, forceUpdates, history,
          rendered, selection, emitted,
          alertProps, alertState, alertPhase, timer, timeouts, now,
          dismissCalls, onDismissCalls, lateDismissCalls>>

alertVars == <<alertProps, alertState, alertPhase, timer, timeouts, now,
               dismissCalls, onDismissCalls, lateDismissCalls>>

treeVars == <<cosmosOptions, valueProp, getOptionValue, canonical, resolved, pc>>
selectVars == <<props, state, phase, listeners, forceUpdates, history,
                rendered, selection, emitted>>

----------------------------------------------------------------------------
(* Bounds *)

\* total number of nodes in a caller option tree
MaxNodes == 3
\* length of a raw value sequence
MaxRaw == 2
\* number of events delivered to one Select
MaxEvents == 6
\* seconds an Alert is followed for
MaxTime == 3

----------------------------------------------------------------------------
(* JavaScript values *)

Undefined == [undefined |-> TRUE]
Null == [null |-> TRUE]
Str(s) == [String |-> s]
Bool(b) == [Boolean |-> b]
Arr(s) == [Array |-> s]
Fn(f) == [Function |-> f]
Num(n) == [Number |-> n]
TypeError == [throw |-> "TypeError"]

\* v.constructor.name
ConstructorName(v) ==
  CASE "Array" \in DOMAIN v -> "Array"
    [] "String" \in DOMAIN v -> "String"
    [] "Boolean" \in DOMAIN v -> "Boolean"
    [] "Function" \in DOMAIN v -> "Function"
    [] OTHER -> "Object"

\* JavaScript truthiness
Truthy(v) == v \notin {Undefined, Null, Bool(FALSE), Str(""), Num(0)}

\* a || b
OrElse(a, b) == IF Truthy(a) THEN a ELSE b

\* o.k (undefined when o has no such key)
Get(o, k) == IF k \in DOMAIN o THEN o[k] ELSE Undefined

\* f(option) for a key extractor option => option.<field>
Apply(f, option) == Get(option, f.Function)

Threw(v) == "throw" \in DOMAIN v

----------------------------------------------------------------------------
(* cosmosToReactSelect.options *)

defaultGetOptionValue == Fn("value")

RECURSIVE options(_)

\* the arrow function mapped over the nodes: destructures the node, builds
\* isDisabled / label / options and spreads the remaining properties last
NormalizeNode(node) ==
  LET items == Get(node, "items")
      groupName == Get(node, "groupName")
      disabled == Get(node, "disabled")
      label == Get(node, "label")
      text == Get(node, "text")
      otherProperties ==
        [k \in DOMAIN node \ {"items", "groupName", "disabled", "label", "text"}
           |-> node[k]]
      sub == IF Truthy(items) THEN options(items) ELSE Undefined
  IN IF Threw(sub) THEN TypeError
     ELSE otherProperties @@
          [isDisabled |-> disabled,
           label |-> OrElse(groupName, OrElse(label, text)),
           options |-> sub]

\* options() as it would be if disabled nodes were left out
optionsSkipsDisabled(cosmosOpts) ==
  IF ConstructorName(cosmosOpts) # "Array" \/ cosmosOpts \in {Undefined, Null}
  THEN TypeError
  ELSE Arr(SelectSeq([i \in 1..Len(cosmosOpts.Array) |->
                        NormalizeNode(cosmosOpts.Array[i])],
                     LAMBDA n : ~Truthy(Get(n, "isDisabled"))))

options(cosmosOpts) ==
  IF ConstructorName(cosmosOpts) # "Array" \/ cosmosOpts \in {Undefined, Null}
  THEN TypeError      \* .map is not a function
  ELSE LET mapped == [i \in 1..Len(cosmosOpts.Array) |->
                        NormalizeNode(cosmosOpts.Array[i])]
       IN IF \E i \in 1..Len(mapped) : Threw(mapped[i])
          THEN TypeError
          ELSE Arr(mapped)

----------------------------------------------------------------------------
(* cosmosToReactSelect.value *)

\* matchValue as it would be if it read option.value whatever the extractor
matchValueIgnoresExtractor(option, v, g) == Get(option, "value") = v

\* const matchValue = (option) => getOptionValue(option) === valueProp
matchValue(option, v, g) == Apply(g, option) = v

\* option.options.forEach((subOption) => { if (matchValue(subOption)) valueFound = subOption })
RECURSIVE InnerForEach(_, _, _, _)
InnerForEach(subOptions, v, g, valueFound) ==
  IF subOptions = <<>> THEN valueFound
  ELSE InnerForEach(Tail(subOptions), v, g,
                    IF matchValue(Head(subOptions), v, g)
                    THEN Head(subOptions) ELSE valueFound)

\* options.forEach((option) => { if (option.options && ...Array) option.options.forEach(...) })
RECURSIVE OuterForEach(_, _, _, _)
OuterForEach(opts, v, g, valueFound) ==
  IF opts = <<>> THEN valueFound
  ELSE LET option == Head(opts)
           sub == Get(option, "options")
       IN OuterForEach(Tail(opts), v, g,
                       IF Truthy(sub) /\ ConstructorName(sub) = "Array"
                       THEN InnerForEach(sub.Array, v, g, valueFound)
                       ELSE valueFound)

\* options.find(matchValue)
RECURSIVE find(_, _, _)
find(opts, v, g) ==
  IF opts = <<>> THEN Undefined
  ELSE IF matchValue(Head(opts), v, g) THEN Head(opts)
  ELSE find(Tail(opts), v, g)

\* the scalar part of value() as it would be if the top-level list came first
ScalarValueTopLevelFirst(v, opts, g) ==
  LET found == find(opts.Array, v, g)
  IN IF found # Undefined THEN found
     ELSE LET valueFound == OuterForEach(opts.Array, v, g, Null)
          IN IF valueFound # Null THEN valueFound ELSE Undefined

\* the scalar part of value(): nested scan, then the top-level list
ScalarValue(v, opts, g) ==
  LET valueFound == OuterForEach(opts.Array, v, g, Null)
  IN IF valueFound # Null THEN valueFound ELSE find(opts.Array, v, g)

\* value() as it would be if unmatched elements were dropped from a sequence
valueDropsUnmatched(v, opts, gProp) ==
  LET g == IF gProp = Undefined THEN defaultGetOptionValue ELSE gProp
      one(e) == IF e = Null \/ e = Undefined THEN Null ELSE ScalarValue(e, opts, g)
  IN IF v = Null \/ v = Undefined THEN Null
     ELSE IF ConstructorName(v) = "Array"
     THEN Arr(SelectSeq([i \in 1..Len(v.Array) |-> one(v.Array[i])],
                        LAMBDA r : r # Undefined))
     ELSE ScalarValue(v, opts, g)

RECURSIVE value(_, _, _)
value(v, opts, gProp) ==
  LET g == IF gProp = Undefined THEN defaultGetOptionValue ELSE gProp
  IN IF v = Null \/ v = Undefined THEN Null
     ELSE IF ConstructorName(v) = "Array"
     THEN Arr([i \in 1..Len(v.Array) |-> value(v.Array[i], opts, g)])
     ELSE ScalarValue(v, opts, g)

----------------------------------------------------------------------------
(* Inputs of the options/value specification *)

\* caller leaves: two carry the same value, two the same id
CallerLeaves ==
  { [value |-> Str("a"), id |-> Str("a"), label |-> Str("A")],
    [value |-> Str("a"), id |-> Str("b"), text |-> Str("B")],
    [value |-> Str("b"), id |-> Str("a"), label |-> Str("C"), disabled |-> Bool(TRUE)] }

\* a caller node already in the widget's own group shape: no items, but an
\* options field, which is one of the "other properties" passed through
NativeGroup ==
  [label |-> Str("P"),
   options |-> Arr(<<[value |-> Str("a"), label |-> Str("N")]>>)]

CallerGroup(forest) == [groupName |-> Str("G"), items |-> Arr(forest)]

RECURSIVE ForestsOfSize(_)
TreesOfSize(n) ==
  IF n = 1 THEN CallerLeaves \cup {NativeGroup, CallerGroup(<<>>)}
  ELSE {CallerGroup(f) : f \in ForestsOfSize(n - 1)}

ForestsOfSize(n) ==
  IF n = 0 THEN {<<>>}
  ELSE UNION {{<<t>> \o f : t \in TreesOfSize(k), f \in ForestsOfSize(n - k)}
              : k \in 1..n}

CallerTrees == {Arr(f) : f \in UNION {ForestsOfSize(n) : n \in 0..MaxNodes}}

Keys == {Str("a"), Str("b")}

RawElements == Keys \cup {Null}

RawValues ==
  {Null, Undefined} \cup Keys
    \cup {Arr(s) : s \in UNION {[1..n -> RawElements] : n \in 0..MaxRaw}}

Extractors == {Undefined, Fn("id")}

----------------------------------------------------------------------------
(* The options/value specification: options() then value() on caller inputs *)

AlertIdle ==
  /\ alertProps = Undefined
  /\ alertState = Undefined
  /\ alertPhase = "idle"
  /\ timer = Undefined
  /\ timeouts = {}
  /\ now = 0
  /\ dismissCalls = 0
  /\ onDismissCalls = 0
  /\ lateDismissCalls = 0

SelectIdle ==
  /\ props = Undefined
  /\ state = Undefined
  /\ phase = "idle"
  /\ listeners = {}
  /\ forceUpdates = 0
  /\ history = <<>>
  /\ rendered = Undefined
  /\ selection = Undefined
  /\ emitted = Undefined

InitTree ==
  /\ cosmosOptions \in CallerTrees
  /\ valueProp \in RawValues
  /\ getOptionValue \in Extractors
  /\ canonical = Undefined
  /\ resolved = Undefined
  /\ pc = "props"
  /\ SelectIdle
  /\ AlertIdle

\* const options = cosmosToReactSelect.options(props.options)
Normalize ==
  /\ pc = "props"
  /\ canonical' = options(cosmosOptions)
  /\ pc' = "normalized"
  /\ UNCHANGED <<cosmosOptions, valueProp, getOptionValue, resolved>>
  /\ UNCHANGED selectVars
  /\ UNCHANGED alertVars

\* cosmosToReactSelect.value(props.value, options, props.getOptionValue)
Resolve ==
  /\ pc = "normalized"
  /\ ~Threw(canonical)
  /\ resolved' = value(valueProp, canonical, getOptionValue)
  /\ pc' = "resolved"
  /\ UNCHANGED <<cosmosOptions, valueProp, getOptionValue, canonical>>
  /\ UNCHANGED selectVars
  /\ UNCHANGED alertVars

NextTree == Normalize \/ Resolve

SpecTree == InitTree /\ [][NextTree]_vars

----------------------------------------------------------------------------
(* oneOrMore and Select.render *)

\* oneOrMore as it would be if it always read option.value
oneOrMoreDefaultKey(sel, gProp) ==
  IF sel = Null THEN Null
  ELSE IF ConstructorName(sel) = "Array"
  THEN Arr([i \in 1..Len(sel.Array) |-> Apply(defaultGetOptionValue, sel.Array[i])])
  ELSE Apply(defaultGetOptionValue, sel)

oneOrMore(sel, gProp) ==
  LET g == IF gProp = Undefined THEN defaultGetOptionValue ELSE gProp
  IN IF sel = Null THEN Null
     ELSE IF ConstructorName(sel) = "Array"
     THEN Arr([i \in 1..Len(sel.Array) |-> Apply(g, sel.Array[i])])
     ELSE Apply(g, sel)

\* the condition under which render() returns <SimpleSelect {...props} />
FastPath(p) ==
  ~( \/ Truthy(p.async)
     \/ Truthy(p.searchable)
     \/ Truthy(p.multiple)
     \/ Truthy(p.customOptionRenderer)
     \/ Truthy(p.customValueRenderer)
     \/ Truthy(p.getOptionValue) )

\* the widget's value as it would be if an async select resolved it too
WidgetValueAlwaysResolves(p, opts) == value(p.value, opts, p.getOptionValue)

\* const value = props.async ? props.value : cosmosToReactSelect.value(...)
WidgetValue(p, opts) ==
  IF Truthy(p.async) THEN p.value ELSE value(p.value, opts, p.getOptionValue)

\* Select.render: what is handed to the underlying widget, or the error thrown
render(p) ==
  IF FastPath(p) THEN [provider |-> "SimpleSelect"]
  ELSE LET opts == options(p.options)
           defaultOptions == IF Truthy(p.defaultOptions)
                             THEN options(p.defaultOptions) ELSE Null
       IN IF Threw(opts) \/ Threw(defaultOptions) THEN TypeError
          ELSE [provider |-> IF Truthy(p.async) THEN "AsyncSelect" ELSE "ReactSelect",
                options |-> opts,
                defaultOptions |-> defaultOptions,
                value |-> WidgetValue(p, opts),
                isMulti |-> p.multiple,
                name |-> p.name]

\* const newValue = props.async ? options : oneOrMore(options, props.getOptionValue)
NewValue(p, sel) ==
  IF Truthy(p.async) THEN sel ELSE oneOrMore(sel, p.getOptionValue)

\* the onChange closure of render(): the event handed to props.onChange, if any
onChange(p, sel, last) ==
  IF Truthy(p.onChange)
  THEN [target |-> [name |-> p.name, value |-> NewValue(p, sel)]]
  ELSE last

IsWidget(r) == "provider" \in DOMAIN r /\ r.provider \in {"ReactSelect", "AsyncSelect"}

----------------------------------------------------------------------------
(* Inputs of the render specification *)

LeafA == [value |-> Str("a"), id |-> Str("a"), label |-> Str("A")]
LeafB == [value |-> Str("b"), id |-> Str("a"), label |-> Str("C"), disabled |-> Bool(TRUE)]

\* the tree of the documented scenario: a leaf, then a group holding a leaf
ScenarioTree == Arr(<<LeafA, CallerGroup(<<LeafB>>)>>)

\* an object the caller of an async select holds as its value
OpaqueValue == [value |-> Str("z"), id |-> Str("z"), label |-> Str("Z")]

BaseProps ==
  [options |-> ScenarioTree, value |-> Undefined, async |-> Undefined,
   searchable |-> Undefined, multiple |-> Undefined,
   customOptionRenderer |-> Undefined, customValueRenderer |-> Undefined,
   getOptionValue |-> Undefined, defaultOptions |-> Undefined,
   defaultMenuOpen |-> Undefined, onChange |-> Undefined, name |-> Str("field")]

Flag == {Undefined, Bool(TRUE)}

RenderProps ==
  { [BaseProps EXCEPT !.options = o, !.value = v, !.async = a, !.searchable = s,
                      !.multiple = m, !.getOptionValue = g, !.defaultOptions = d,
                      !.onChange = c]
    : o \in {Arr(<<>>), ScenarioTree},
      v \in RawValues \cup {OpaqueValue},
      a \in Flag, s \in Flag, m \in Flag,
      g \in Extractors,
      d \in {Undefined, Bool(TRUE), Arr(<<LeafA>>)},
      c \in {Undefined, Fn("onChange")} }

\* the records the widget can hand back: the leaves it was given, or objects
\* loaded by an async select
WidgetRecords == {NormalizeNode(LeafA), NormalizeNode(LeafB), OpaqueValue}

Selections ==
  {Null} \cup WidgetRecords
    \cup {Arr(<<>>)}
    \cup {Arr(<<x>>) : x \in WidgetRecords}
    \cup {Arr(<<x, y>>) : x \in WidgetRecords, y \in WidgetRecords}

TreeIdle ==
  /\ cosmosOptions = Undefined
  /\ valueProp = Undefined
  /\ getOptionValue = Undefined
  /\ canonical = Undefined
  /\ resolved = Undefined
  /\ pc = "idle"

\* this.state = { menuIsOpen: props.defaultMenuOpen || false }
constructor(p) == [menuIsOpen |-> OrElse(p.defaultMenuOpen, Bool(FALSE))]

InitRender ==
  /\ props \in RenderProps
  /\ state = constructor(props)
  /\ phase = "constructed"
  /\ listeners = {}
  /\ forceUpdates = 0
  /\ history = <<>>
  /\ rendered = Undefined
  /\ selection = Undefined
  /\ emitted = Undefined
  /\ TreeIdle
  /\ AlertIdle

\* render() is called on the constructed component
Render ==
  /\ phase = "constructed"
  /\ rendered = Undefined
  /\ rendered' = render(props)
  /\ UNCHANGED <<props, state, phase, listeners, forceUpdates, history,
                 selection, emitted>>
  /\ UNCHANGED treeVars
  /\ UNCHANGED alertVars

\* the widget calls the onChange closure of the last render with its selection
Change ==
  /\ IsWidget(rendered)
  /\ \E sel \in Selections :
       /\ selection' = sel
       /\ emitted' = onChange(props, sel, emitted)
  /\ UNCHANGED <<props, state, phase, listeners, forceUpdates, history, rendered>>
  /\ UNCHANGED treeVars
  /\ UNCHANGED alertVars

NextRender == Render \/ Change

SpecRender == InitRender /\ [][NextRender]_vars

----------------------------------------------------------------------------
(* The Select lifecycle: mount, menu open/close, scroll, unmount *)

\* document.addEventListener('scroll', this.handleScroll, true)
ScrollListener == [type |-> "scroll", listener |-> "handleScroll", capture |-> TRUE]

addEventListener(ls, l) == ls \cup {l}
removeEventListener(ls, l) == ls \ {l}

componentDidMountListeners(ls) == addEventListener(ls, ScrollListener)

\* componentWillUnmount as it would be if it left out the capture flag
componentWillUnmountNoCapture(ls) ==
  removeEventListener(ls, [ScrollListener EXCEPT !.capture = FALSE])

componentWillUnmountListeners(ls) == removeEventListener(ls, ScrollListener)

\* handleScroll as it would be without the menuIsOpen test
handleScrollAlways(st, n) == n + 1

\* handleScroll: the number of forceUpdate() calls after one scroll event
handleScroll(st, n) == IF Truthy(st.menuIsOpen) THEN n + 1 ELSE n

\* updateMenuState(newState)(): setState({ menuIsOpen: newState })
updateMenuState(st, newState) == [st EXCEPT !.menuIsOpen = newState]

LifecycleProps ==
  { [BaseProps EXCEPT !.value = Str("b"), !.searchable = s,
                      !.defaultMenuOpen = o, !.defaultOptions = d]
    : s \in Flag, o \in Flag, d \in {Undefined, Bool(TRUE)} }

Init ==
  /\ props \in LifecycleProps
  /\ state = constructor(props)
  /\ phase = "constructed"
  /\ listeners = {}
  /\ forceUpdates = 0
  /\ history = <<>>
  /\ rendered = Undefined
  /\ selection = Undefined
  /\ emitted = Undefined
  /\ TreeIdle
  /\ AlertIdle

CanDeliver == Len(history) < MaxEvents

\* first render, then componentDidMount (never reached when render throws)
Mount ==
  /\ CanDeliver
  /\ phase = "constructed"
  /\ rendered' = render(props)
  /\ IF Threw(render(props))
     THEN /\ phase' = "crashed"
          /\ UNCHANGED <<listeners, forceUpdates>>
     ELSE /\ phase' = "mounted"
          /\ listeners' = componentDidMountListeners(listeners)
          /\ forceUpdates' = IF Truthy(props.defaultMenuOpen)
                             THEN forceUpdates + 1 ELSE forceUpdates
  /\ history' = Append(history, "mount")
  /\ UNCHANGED <<props, state, selection, emitted>>
  /\ UNCHANGED treeVars
  /\ UNCHANGED alertVars

\* the widget signals onMenuOpen / onMenuClose (wired only on the full widget)
MenuOpen ==
  /\ CanDeliver
  /\ phase = "mounted"
  /\ IsWidget(rendered)
  /\ state' = updateMenuState(state, Bool(TRUE))
  /\ rendered' = render(props)
  /\ history' = Append(history, "open")
  /\ UNCHANGED <<props, phase, listeners, forceUpdates, selection, emitted>>
  /\ UNCHANGED treeVars
  /\ UNCHANGED alertVars

MenuClose ==
  /\ CanDeliver
  /\ phase = "mounted"
  /\ IsWidget(rendered)
  /\ state' = updateMenuState(state, Bool(FALSE))
  /\ rendered' = render(props)
  /\ history' = Append(history, "close")
  /\ UNCHANGED <<props, phase, listeners, forceUpdates, selection, emitted>>
  /\ UNCHANGED treeVars
  /\ UNCHANGED alertVars

\* a scroll event on the document: delivered to the listeners registered
Scroll ==
  /\ CanDeliver
  /\ phase \in {"constructed", "mounted", "unmounted"}
  /\ forceUpdates' = IF ScrollListener \in listeners
                     THEN handleScroll(state, forceUpdates) ELSE forceUpdates
  /\ history' = Append(history, "scroll")
  /\ UNCHANGED <<props, state, phase, listeners, rendered, selection, emitted>>
  /\ UNCHANGED treeVars
  /\ UNCHANGED alertVars

\* componentWillUnmount
Unmount ==
  /\ CanDeliver
  /\ phase = "mounted"
  /\ listeners' = componentWillUnmountListeners(listeners)
  /\ phase' = "unmounted"
  /\ history' = Append(history, "unmount")
  /\ UNCHANGED <<props, state, forceUpdates, rendered, selection, emitted>>
  /\ UNCHANGED treeVars
  /\ UNCHANGED alertVars

Next == Mount \/ MenuOpen \/ MenuClose \/ Scroll \/ Unmount

Spec == Init /\ [][Next]_vars

----------------------------------------------------------------------------
(* The Alert component: auto-dismiss timer, close button, unmount *)

AlertPropsSet ==
  { [dismissAfterSeconds |-> s, dismissible |-> d, onDismiss |-> f]
    : s \in {Undefined} \cup {Num(n) : n \in 0..(MaxTime - 1)},
      d \in {Bool(TRUE), Bool(FALSE)},
      f \in {Undefined, Fn("onDismiss")} }

\* the id window.setTimeout returns
TimerId == Num(1)

\* window.setTimeout(callback, seconds * 1000)
setTimeout(pending, seconds, t) ==
  pending \cup {[id |-> TimerId, due |-> t + seconds.Number]}

\* window.clearTimeout(id)
clearTimeout(pending, id) == {e \in pending : e.id # id}

\* componentWillUnmount: if (this.timer) window.clearTimeout(this.timer)
AlertWillUnmountTimeouts(pending, tm) ==
  IF Truthy(tm) THEN clearTimeout(pending, tm) ELSE pending

\* the timeouts still pending once dismiss has run (dismiss clears nothing)
dismissTimeouts(pending, tm) == pending

InitAlert ==
  /\ alertProps \in AlertPropsSet
  /\ alertState = [visible |-> Bool(TRUE)]
  /\ alertPhase = "constructed"
  /\ timer = Undefined
  /\ timeouts = {}
  /\ now = 0
  /\ dismissCalls = 0
  /\ onDismissCalls = 0
  /\ lateDismissCalls = 0
  /\ SelectIdle
  /\ TreeIdle

\* dismiss: setState({ visible: false }), then props.onDismiss() if a function
dismiss ==
  /\ alertState' = [alertState EXCEPT !.visible = Bool(FALSE)]
  /\ dismissCalls' = dismissCalls + 1
  /\ onDismissCalls' = IF ConstructorName(alertProps.onDismiss) = "Function"
                       THEN onDismissCalls + 1 ELSE onDismissCalls
  /\ lateDismissCalls' = IF alertPhase = "unmounted"
                         THEN lateDismissCalls + 1 ELSE lateDismissCalls

\* componentDidMount
AlertMount ==
  /\ alertPhase = "constructed"
  /\ alertPhase' = "mounted"
  /\ IF Truthy(alertProps.dismissAfterSeconds)
     THEN /\ timer' = TimerId
          /\ timeouts' = setTimeout(timeouts, alertProps.dismissAfterSeconds, now)
     ELSE UNCHANGED <<timer, timeouts>>
  /\ UNCHANGED <<alertProps, alertState, now, dismissCalls, onDismissCalls,
                 lateDismissCalls>>
  /\ UNCHANGED <<treeVars, selectVars>>

\* the close button, rendered while visible and dismissible: onClick={this.dismiss}
ClickDismiss ==
  /\ alertPhase = "mounted"
  /\ Truthy(alertState.visible)
  /\ Truthy(alertProps.dismissible)
  /\ dismiss
  /\ timeouts' = dismissTimeouts(timeouts, timer)
  /\ UNCHANGED <<alertProps, alertPhase, timer, now>>
  /\ UNCHANGED <<treeVars, selectVars>>

\* a pending timeout comes due: window runs this.dismiss
TimerFires ==
  /\ \E e \in timeouts :
       /\ e.due <= now
       /\ timeouts' = dismissTimeouts(timeouts \ {e}, timer)
  /\ dismiss
  /\ UNCHANGED <<alertProps, alertPhase, timer, now>>
  /\ UNCHANGED <<treeVars, selectVars>>

\* componentWillUnmount
AlertUnmount ==
  /\ alertPhase = "mounted"
  /\ alertPhase' = "unmounted"
  /\ timeouts' = AlertWillUnmountTimeouts(timeouts, timer)
  /\ UNCHANGED <<alertProps, alertState, timer, now, dismissCalls,
                 onDismissCalls, lateDismissCalls>>
  /\ UNCHANGED <<treeVars, selectVars>>

\* a second passes
Tick ==
  /\ alertPhase \in {"mounted", "unmounted"}
  /\ now < MaxTime
  /\ now' = now + 1
  /\ UNCHANGED <<alertProps, alertState, alertPhase, timer, timeouts,
                 dismissCalls, onDismissCalls, lateDismissCalls>>
  /\ UNCHANGED <<treeVars, selectVars>>

NextAlert == AlertMount \/ ClickDismiss \/ TimerFires \/ AlertUnmount \/ Tick

SpecAlert == InitAlert /\ [][NextAlert]_vars

----------------------------------------------------------------------------
(* Vocabulary of the claims about options() and value() *)

\* a node of a canonical tree is a group when it holds an options array
IsGroup(node) ==
  Truthy(Get(node, "options")) /\ ConstructorName(Get(node, "options")) = "Array"

\* a node of a caller tree is a group when it carries an items array
HasItems(node) ==
  Truthy(Get(node, "items")) /\ ConstructorName(Get(node, "items")) = "Array"

\* the extractor value() works with
KeyExtractor == IF getOptionValue = Undefined THEN Fn("value") ELSE getOptionValue

KeyOf(node) == Get(node, KeyExtractor.Function)

\* the nodes held directly by the top-level groups, group by group
RECURSIVE NestedNodes(_)
NestedNodes(opts) ==
  IF opts = <<>> THEN <<>>
  ELSE (IF IsGroup(Head(opts)) THEN Head(opts).options.Array ELSE <<>>)
         \o NestedNodes(Tail(opts))

\* the documented search order: nested nodes first, then the top-level list
SearchOrder(opts) == NestedNodes(opts) \o opts

Matches(seq, v) == {i \in 1..Len(seq) : KeyOf(seq[i]) = v}

FirstMatch(seq, v) ==
  IF Matches(seq, v) = {} THEN Undefined
  ELSE seq[CHOOSE i \in Matches(seq, v) : \A j \in Matches(seq, v) : i <= j]

\* the leaves value() can be asked about: top-level or directly in a group
SearchedLeaves(opts) ==
  {SearchOrder(opts)[i] : i \in {j \in 1..Len(SearchOrder(opts)) :
                                   ~IsGroup(SearchOrder(opts)[j])}}

IsScalar(v) == v \notin {Null, Undefined} /\ ConstructorName(v) # "Array"

ResolvedScalar == pc = "resolved" /\ IsScalar(valueProp)

----------------------------------------------------------------------------
(* C1 *)

\* C1 (as claimed): for a scalar raw value v, value() returns the FIRST node in
\* search order (groups in order, leaves in order within each group, then the
\* top-level list) whose key equals v; a later nested leaf with the same key
\* never replaces an earlier one.
C1_FirstMatchWins ==
  ResolvedScalar => resolved = FirstMatch(SearchOrder(canonical.Array), valueProp)

----------------------------------------------------------------------------
(* C2 *)

\* C2 (as claimed): for every leaf L of the canonical tree, top-level or nested
\* in a group, value(keyExtractor(L), tree, keyExtractor) returns a record
\* equal to L.
C2_RoundTripAnyLeaf ==
  pc = "resolved" =>
    \A L \in SearchedLeaves(canonical.Array) : KeyOf(L) = valueProp => resolved = L

\* C2 (amended): the round trip holds for every leaf L, top-level or directly
\* in a top-level group, whose key is a scalar (neither null nor undefined)
\* and such that every examined node carrying that key is equal to L.
C2_RoundTripUniqueKey ==
  ResolvedScalar =>
    \A L \in SearchedLeaves(canonical.Array) :
      ( /\ KeyOf(L) = valueProp
        /\ \A i \in Matches(SearchOrder(canonical.Array), valueProp) :
             SearchOrder(canonical.Array)[i] = L )
      => resolved = L

\* a nested leaf, in a tree that also holds other nodes, was looked up by its
\* key under the custom extractor and came back
C2_Witness ==
  /\ ResolvedScalar
  /\ getOptionValue = Fn("id")
  /\ Len(SearchOrder(canonical.Array)) >= 3
  /\ \E i \in 1..Len(NestedNodes(canonical.Array)) :
       LET L == NestedNodes(canonical.Array)[i]
       IN /\ ~IsGroup(L)
          /\ KeyOf(L) = valueProp
          /\ \A j \in Matches(SearchOrder(canonical.Array), valueProp) :
               SearchOrder(canonical.Array)[j] = L
          /\ resolved = L

----------------------------------------------------------------------------
(* C8 *)

----------------------------------------------------------------------------
(* C9 *)

\* what one element of a raw sequence must resolve to, given what the scan
\* of the tree can find for it
ElementOk(v, r, unmatched) ==
  IF Matches(SearchOrder(canonical.Array), v) = {}
  THEN r = unmatched
  ELSE \E i \in Matches(SearchOrder(canonical.Array), v) :
         r = SearchOrder(canonical.Array)[i]

ResolvedArray == pc = "resolved" /\ ConstructorName(valueProp) = "Array"

\* C9 (as claimed): a raw sequence [v1..vn] resolves to a sequence of exactly
\* n elements in the same order, element i being a match of vi, and undefined
\* for EVERY vi that matches no option.
C9_UnmatchedIsUndefined ==
  ResolvedArray =>
    /\ ConstructorName(resolved) = "Array"
    /\ Len(resolved.Array) = Len(valueProp.Array)
    /\ \A i \in 1..Len(valueProp.Array) :
         ElementOk(valueProp.Array[i], resolved.Array[i], Undefined)

\* C9 (amended): a raw sequence [v1..vn] resolves to a sequence of exactly n
\* elements in the same order, element i being a match of vi, undefined for a
\* vi that is a scalar matching no option, and null for a vi that is itself
\* null or undefined.
C9_UnmatchedIsUndefinedOrNull ==
  ResolvedArray =>
    /\ ConstructorName(resolved) = "Array"
    /\ Len(resolved.Array) = Len(valueProp.Array)
    /\ \A i \in 1..Len(valueProp.Array) :
         IF valueProp.Array[i] \in {Null, Undefined}
         THEN resolved.Array[i] = Null
         ELSE ElementOk(valueProp.Array[i], resolved.Array[i], Undefined)

\* a two-element raw sequence whose first element matches a leaf and whose
\* second matches nothing (the ["a","x"] scenario)
C9_Witness ==
  /\ ResolvedArray
  /\ Len(valueProp.Array) = 2
  /\ IsScalar(valueProp.Array[1]) /\ IsScalar(valueProp.Array[2])
  /\ Matches(SearchOrder(canonical.Array), valueProp.Array[1]) # {}
  /\ Matches(SearchOrder(canonical.Array), valueProp.Array[2]) = {}
  /\ resolved.Array[1] \in SearchedLeaves(canonical.Array)
  /\ resolved.Array[2] = Undefined

----------------------------------------------------------------------------
(* C10 *)

RECURSIVE CallerLeafCount(_)
CallerLeafCount(nodes) ==
  IF nodes = <<>> THEN 0
  ELSE (IF HasItems(Head(nodes)) THEN CallerLeafCount(Head(nodes).items.Array) ELSE 1)
         + CallerLeafCount(Tail(nodes))

RECURSIVE CanonicalLeafCount(_)
CanonicalLeafCount(nodes) ==
  IF nodes = <<>> THEN 0
  ELSE (IF IsGroup(Head(nodes)) THEN CanonicalLeafCount(Head(nodes).options.Array) ELSE 1)
         + CanonicalLeafCount(Tail(nodes))

Max(a, b) == IF a >= b THEN a ELSE b

RECURSIVE CallerDepth(_)
CallerDepth(nodes) ==
  IF nodes = <<>> THEN 0
  ELSE Max(1 + (IF HasItems(Head(nodes)) THEN CallerDepth(Head(nodes).items.Array) ELSE 0),
           CallerDepth(Tail(nodes)))

RECURSIVE CanonicalDepth(_)
CanonicalDepth(nodes) ==
  IF nodes = <<>> THEN 0
  ELSE Max(1 + (IF IsGroup(Head(nodes)) THEN CanonicalDepth(Head(nodes).options.Array) ELSE 0),
           CanonicalDepth(Tail(nodes)))

\* node by node: same length, a group exactly where the caller node carried
\* items, the same leaf (by its value and id) at the same place
RECURSIVE SameShape(_, _)
SameShape(callerNodes, canonNodes) ==
  /\ Len(callerNodes) = Len(canonNodes)
  /\ \A i \in 1..Len(callerNodes) :
       /\ HasItems(callerNodes[i]) <=> IsGroup(canonNodes[i])
       /\ Get(canonNodes[i], "value") = Get(callerNodes[i], "value")
       /\ Get(canonNodes[i], "id") = Get(callerNodes[i], "id")
       /\ (HasItems(callerNodes[i]) /\ IsGroup(canonNodes[i]))
            => SameShape(callerNodes[i].items.Array, canonNodes[i].options.Array)

StructurePreserved ==
  /\ CanonicalLeafCount(canonical.Array) = CallerLeafCount(cosmosOptions.Array)
  /\ CanonicalDepth(canonical.Array) = CallerDepth(cosmosOptions.Array)
  /\ SameShape(cosmosOptions.Array, canonical.Array)

\* some caller node, at any depth, carries a field named options of its own
RECURSIVE CarriesOptionsField(_)
CarriesOptionsField(nodes) ==
  \E i \in 1..Len(nodes) :
    \/ "options" \in DOMAIN nodes[i]
    \/ HasItems(nodes[i]) /\ CarriesOptionsField(nodes[i].items.Array)

\* C10 (as claimed): for any caller tree, whatever extra pass-through fields its
\* nodes carry, options() keeps the leaf count, the nesting depth and the
\* left-to-right order, and a node is a group in the output exactly when it
\* carried items in the input.
C10_StructurePreservedAlways ==
  pc \in {"normalized", "resolved"} => StructurePreserved

\* C10 (amended): the same, for every caller tree in which no node carries a
\* pass-through field named options (that field is spread over the computed
\* one).
C10_StructurePreservedWithoutOptionsField ==
  (pc \in {"normalized", "resolved"} /\ ~CarriesOptionsField(cosmosOptions.Array))
    => StructurePreserved

\* a leaf followed by a group holding a different leaf has been normalized
C10_Witness ==
  /\ pc = "normalized"
  /\ ~CarriesOptionsField(cosmosOptions.Array)
  /\ Len(cosmosOptions.Array) = 2
  /\ ~HasItems(cosmosOptions.Array[1])
  /\ HasItems(cosmosOptions.Array[2])
  /\ Len(cosmosOptions.Array[2].items.Array) = 1
  /\ cosmosOptions.Array[2].items.Array[1] # cosmosOptions.Array[1]
  /\ CanonicalLeafCount(canonical.Array) = 2
  /\ CanonicalDepth(canonical.Array) = 2
  /\ IsGroup(canonical.Array[2])

----------------------------------------------------------------------------
(* C3 *)

FullRender == IsWidget(rendered)

\* C3 (as claimed): the multiplicity of the value computed for the widget
\* follows the declared multiple flag and never the shape of the raw value:
\* with multiple unset the value is not a sequence, with multiple set it is
\* not a single record.
C3_MultiplicityFollowsMultiple ==
  FullRender =>
    IF Truthy(props.multiple)
    THEN rendered.value \in {Null, Undefined} \/ ConstructorName(rendered.value) = "Array"
    ELSE ConstructorName(rendered.value) # "Array"

\* C3 (amended): the multiplicity of the value computed for the widget follows
\* the runtime shape of the raw value prop, whatever multiple says: on a sync
\* select null/undefined gives null, a sequence of n gives a sequence of n,
\* a scalar gives a single record or undefined; on an async select the raw
\* value is handed over unchanged.
C3_MultiplicityFollowsRawShape ==
  FullRender =>
    IF Truthy(props.async) THEN rendered.value = props.value
    ELSE IF props.value \in {Null, Undefined} THEN rendered.value = Null
    ELSE IF ConstructorName(props.value) = "Array"
    THEN /\ ConstructorName(rendered.value) = "Array"
         /\ Len(rendered.value.Array) = Len(props.value.Array)
    ELSE /\ rendered.value # Null
         /\ ConstructorName(rendered.value) # "Array"

\* a sync select without multiple was rendered with a two-element raw value
\* and hands the widget a two-element sequence
C3_Witness ==
  /\ FullRender
  /\ ~Truthy(props.async)
  /\ ~Truthy(props.multiple)
  /\ ConstructorName(props.value) = "Array"
  /\ Len(props.value.Array) = 2
  /\ ConstructorName(rendered.value) = "Array"
  /\ Len(rendered.value.Array) = 2

----------------------------------------------------------------------------
(* C4 *)

\* the keys of a selection under the select's key extractor
KeysOfSelection(sel) ==
  LET field == IF props.getOptionValue = Undefined THEN "value"
               ELSE props.getOptionValue.Function
  IN IF sel = Null THEN Null
     ELSE IF "Array" \in DOMAIN sel
     THEN Arr([i \in 1..Len(sel.Array) |-> Get(sel.Array[i], field)])
     ELSE Get(sel, field)

EventShape ==
  /\ DOMAIN emitted = {"target"}
  /\ DOMAIN emitted.target = {"name", "value"}
  /\ emitted.target.name = props.name

\* C4 (as claimed): every event handed to onChange is {target: {name, value}}
\* with value built from the extracted keys of the widget's selection (array
\* in, array out; scalar in, scalar out; null in, null out), never the
\* widget's records, in every mode including async.
C4_EventCarriesKeysInEveryMode ==
  emitted # Undefined =>
    /\ EventShape
    /\ emitted.target.value = KeysOfSelection(selection)

\* C4 (amended): every event handed to onChange is {target: {name, value}};
\* on a sync select value is built from the extracted keys of the widget's
\* selection; on an async select value is the widget's selection itself,
\* records included.
C4_EventCarriesKeysUnlessAsync ==
  emitted # Undefined =>
    /\ EventShape
    /\ emitted.target.value = IF Truthy(props.async) THEN selection
                              ELSE KeysOfSelection(selection)

\* a sync select with a custom key extractor reported a selection of two
\* records as the sequence of their two keys
C4_Witness ==
  /\ emitted # Undefined
  /\ ~Truthy(props.async)
  /\ props.getOptionValue = Fn("id")
  /\ ConstructorName(selection) = "Array"
  /\ Len(selection.Array) = 2
  /\ selection.Array[1] # selection.Array[2]
  /\ emitted.target.value =
       Arr(<<selection.Array[1].id, selection.Array[2].id>>)

----------------------------------------------------------------------------
(* C7 *)

\* C7 (as claimed): for every accepted configuration, defaultOptions given as
\* a boolean included, the non-fast-path render completes options() and
\* value() without throwing.
C7_RenderNeverThrows ==
  rendered # Undefined => ~Threw(rendered)

----------------------------------------------------------------------------
(* C5 *)

\* the repositions a history of events calls for: one per scroll event that
\* arrives while the Select is mounted and its menu is open
RECURSIVE ScrollsWhileOpen(_, _, _)
ScrollsWhileOpen(h, mounted, open) ==
  IF h = <<>> THEN 0
  ELSE LET e == Head(h)
       IN (IF e = "scroll" /\ mounted /\ open THEN 1 ELSE 0)
          + ScrollsWhileOpen(Tail(h),
                             IF e = "mount" THEN TRUE
                             ELSE IF e = "unmount" THEN FALSE ELSE mounted,
                             IF e = "open" THEN TRUE
                             ELSE IF e = "close" THEN FALSE ELSE open)

\* the forceUpdate() componentDidMount makes under defaultMenuOpen is not a
\* reposition caused by a scroll event
MountForceUpdates ==
  IF phase \in {"mounted", "unmounted"} /\ Truthy(props.defaultMenuOpen) THEN 1 ELSE 0

\* C5: for a mounted Select and any sequence of menu-open, menu-close and
\* scroll events, a scroll event triggers a reposition (forceUpdate) exactly
\* when the menu is open at that moment: the number of repositions equals the
\* number of scroll events that occurred while open.
C5_RepositionOnlyWhileOpen ==
  forceUpdates - MountForceUpdates
    = ScrollsWhileOpen(history, FALSE, Truthy(props.defaultMenuOpen))

\* open, scroll, scroll, close, scroll: exactly two repositions
C5_Witness ==
  /\ history = <<"mount", "open", "scroll", "scroll", "close", "scroll">>
  /\ ~Truthy(props.defaultMenuOpen)
  /\ forceUpdates = 2

----------------------------------------------------------------------------
(* C6 *)

\* C6: the capturing scroll listener is registered exactly while the Select is
\* mounted (added at mount, removed at unmount whatever the menu state and
\* the render path), and once the Select is unmounted no scroll event triggers
\* a reposition.
C6_ListenerExactlyWhileMounted ==
  /\ [](listeners = IF phase = "mounted" THEN {ScrollListener} ELSE {})
  /\ [][phase = "unmounted" => forceUpdates' = forceUpdates]_vars

\* a Select unmounted with its menu open, and a scroll event after that
C6_Witness ==
  /\ phase = "unmounted"
  /\ Truthy(state.menuIsOpen)
  /\ Len(history) >= 2
  /\ history[Len(history)] = "scroll"
  /\ history[Len(history) - 1] = "unmount"
  /\ listeners = {}

----------------------------------------------------------------------------
(* C11 *)

\* C11 (as claimed): for an Alert mounted with dismissAfterSeconds and an
\* onDismiss callback, in every interleaving of the close button, the timer
\* and unmount, dismiss runs at most once (a manual dismiss keeps the timer
\* from running dismiss again), so onDismiss is called at most once and never
\* after unmount.
C11_DismissAtMostOnce ==
  ( /\ alertPhase \in {"mounted", "unmounted"}
    /\ Truthy(alertProps.dismissAfterSeconds)
    /\ ConstructorName(alertProps.onDismiss) = "Function" )
  => /\ dismissCalls <= 1
     /\ onDismissCalls <= 1
     /\ lateDismissCalls = 0

====
